---- MODULE Spec2Model ----
(***************************************************************************)
(* State-machine model of the conversation session engine of               *)
(* Gemini-Pro-Chat: the React state of App.tsx (sessions, currentSessionId, *)
(* messages, isGenerating), its asynchronous handlers split at their await  *)
(* points, and the persistence gateway of services/dbService.ts with its    *)
(* remote store (the Express/PostgreSQL server) and its localStorage        *)
(* fallback.                                                                *)
(*                                                                          *)
(* Text is a sequence of one-character strings, so that trim(), length and  *)
(* substring() are computed as the code computes them.                      *)
(***************************************************************************)
EXTENDS Integers, Sequences, FiniteSets, TLC

\* ------------------------------------------------------------------ bounds
\* send / regenerate invocations (accepted or not) in one behaviour
MaxCalls == 2
\* chunks one stream delivers at most
MaxChunks == 2
\* sessions ever created (the replacement created after deleting the last
\* session is not counted)
MaxSessions == 2
\* highest value of the clock
MaxTime == 2
\* message loads in flight at once
MaxLoads == 1
\* gateway calls in one behaviour that the remote store does not serve
MaxFaults == 1
\* exchanges in a behaviour of the session-store specification
MaxStoreCalls == 1
\* the user deletes sessions until this session id has been allocated
MaxDeleteSid == 3

\* --------------------------------------------------------------- constants
\* lastMessage.substring(0, 60)
PreviewLen == 60

NoSession == 0

NewChat == <<"N","e","w"," ","C","h","a","t">>
NewChatZh == <<"新","对","话">>
StartPreview ==
  <<"S","t","a","r","t"," ","a"," ","n","e","w"," ",
    "c","o","n","v","e","r","s","a","t","i","o","n">>
Ellipsis == <<".",".",".">>
\* translations.en.error
ErrorString ==
  <<"F","a","i","l","e","d"," ","t","o"," ","s","e","n","d"," ",
    "m","e","s","s","a","g","e","."," ","P","l","e","a","s","e"," ",
    "t","r","y"," ","a","g","a","i","n",".">>
\* generateTitle's null result; no text equals it
NullTitle == <<"<null>">>
\* a title the provider returns
DerivedTitle == <<"H","i">>
TitleResults == {NullTitle, DerivedTitle}

\* what the user may have typed when send is invoked
InputValues == { <<" ">>, <<" ","h","i"," ">> }
\* the text of one chunk of the provider's stream (31 characters: one chunk
\* stays below PreviewLen, two chunks exceed it)
Piece == [i \in 1..31 |-> "x"]

UserRole == "user"
ModelRole == "model"

\* how one gateway call ends: the remote operation succeeds; it throws and
\* the localStorage fallback succeeds; it throws and the fallback throws too
Outcomes == {"remote", "local", "throw"}

NoMsg == [id |-> 0, sessionId |-> NoSession, role |-> ModelRole,
          content |-> <<>>, timestamp |-> 0, isError |-> FALSE]

\* useState<Session[] | null>(null): no search result is in place
NullResults == [isNull |-> TRUE, list |-> <<>>]

\* ----------------------------------------------------------- text helpers
IsSpace(c) == c = " "

RECURSIVE TrimStart(_)
TrimStart(s) ==
  IF s = <<>> THEN s
  ELSE IF IsSpace(Head(s)) THEN TrimStart(Tail(s)) ELSE s

RECURSIVE TrimEnd(_)
TrimEnd(s) ==
  IF s = <<>> THEN s
  ELSE IF IsSpace(s[Len(s)]) THEN TrimEnd(SubSeq(s, 1, Len(s) - 1)) ELSE s

\* mutant: only the leading white space is removed
TrimStartOnly(s) == TrimStart(s)

\* String.prototype.trim
Trim(s) == TrimEnd(TrimStart(s))

\* content.substring(0, 60) + (content.length > 60 ? '...' : '')
MakePreview(content) ==
  SubSeq(content, 1, IF Len(content) < PreviewLen THEN Len(content) ELSE PreviewLen)
    \o (IF Len(content) > PreviewLen THEN Ellipsis ELSE <<>>)

\* ------------------------------------------------------- sequence helpers
\* Array.prototype.findIndex by id, 1-based; 0 when absent
IndexOfId(seq, id) ==
  IF \E i \in 1..Len(seq) : seq[i].id = id
  THEN CHOOSE i \in 1..Len(seq) :
         seq[i].id = id /\ \A j \in 1..(i - 1) : seq[j].id # id
  ELSE 0

HasId(seq, id) == IndexOfId(seq, id) # 0

RemoveAt(seq, i) == SubSeq(seq, 1, i - 1) \o SubSeq(seq, i + 1, Len(seq))

\* prev.filter(s => s.id !== id)
WithoutId(seq, id) == SelectSeq(seq, LAMBDA s : s.id # id)

\* the messages of one session, in stored order
OfSession(seq, sid) == SelectSeq(seq, LAMBDA m : m.sessionId = sid)

\* ORDER BY updated_at DESC, rows with equal keys in stored order
RECURSIVE InsertByUpdatedDesc(_, _)
InsertByUpdatedDesc(x, seq) ==
  IF seq = <<>> THEN <<x>>
  ELSE IF x.updatedAt > Head(seq).updatedAt THEN <<x>> \o seq
  ELSE <<Head(seq)>> \o InsertByUpdatedDesc(x, Tail(seq))

RECURSIVE SortByUpdatedDesc(_)
SortByUpdatedDesc(seq) ==
  IF seq = <<>> THEN <<>>
  ELSE InsertByUpdatedDesc(seq[Len(seq)],
                           SortByUpdatedDesc(SubSeq(seq, 1, Len(seq) - 1)))

\* ORDER BY timestamp ASC, rows with equal keys in stored order
RECURSIVE InsertByTimestampAsc(_, _)
InsertByTimestampAsc(x, seq) ==
  IF seq = <<>> THEN <<x>>
  ELSE IF x.timestamp < Head(seq).timestamp THEN <<x>> \o seq
  ELSE <<Head(seq)>> \o InsertByTimestampAsc(x, Tail(seq))

RECURSIVE SortByTimestampAsc(_)
SortByTimestampAsc(seq) ==
  IF seq = <<>> THEN <<>>
  ELSE InsertByTimestampAsc(seq[Len(seq)],
                            SortByTimestampAsc(SubSeq(seq, 1, Len(seq) - 1)))

\* ------------------------------------------------------------------ state
VARIABLES
  sessions,          \* useState<Session[]>
  currentSessionId,  \* useState<string | null>
  messages,          \* useState<Message[]>
  isGenerating,      \* useState(false)
  now,               \* Date.now()
  nextId,            \* next message uuid
  nextSid,           \* next session uuid
  dbSessions,        \* remote table sessions, in stored order
  dbMessages,        \* remote table messages, in stored order
  lsSessions,        \* localStorage 'sessions'
  lsMessages,        \* localStorage 'messages_<id>', all keys in one sequence
  boot,              \* position of loadData
  gens,              \* send / regenerate invocations suspended at an await
  writes,            \* gateway writes nobody waits for
  titleJobs,         \* generateTitle calls in flight
  creates,           \* handleCreateSession invocations awaiting createSession
  deletes,           \* handleDeleteSession invocations awaiting deleteSession
  loads,             \* loadMessages invocations awaiting getMessagesBySession
  calls,             \* the promise of every send / regenerate invocation
  faults,            \* gateway calls the remote store did not serve
  searchResults      \* Sidebar: the list a search put in place of sessions

reactVars == <<sessions, currentSessionId, messages, isGenerating>>
storeVars == <<dbSessions, dbMessages, lsSessions, lsMessages>>
asyncVars == <<boot, gens, writes, titleJobs, creates, deletes, loads>>
vars == <<sessions, currentSessionId, messages, isGenerating, now, nextId,
          nextSid, dbSessions, dbMessages, lsSessions, lsMessages, boot, gens,
          writes, titleJobs, creates, deletes, loads, calls, faults,
          searchResults>>

\* ------------------------------------------------- the remote store (server)
\* GET /api/sessions
RemoteGetSessions(rows) == SortByUpdatedDesc(rows)

\* POST /api/sessions
RemoteCreateSession(rows, s) == Append(rows, s)

\* PATCH /api/sessions/:id with { title }: title is NOT NULL, so the UPDATE
\* that sets it to null fails and the row is left as it was
RemoteUpdateTitle(rows, id, title) ==
  IF title = NullTitle THEN rows
  ELSE [i \in 1..Len(rows) |->
          IF rows[i].id = id THEN [rows[i] EXCEPT !.title = title] ELSE rows[i]]

\* DELETE /api/sessions/:id
RemoteDeleteSession(rows, id) == WithoutId(rows, id)

\* ... ON DELETE CASCADE
RemoteCascadeMessages(rows, id) == SelectSeq(rows, LAMBDA m : m.sessionId # id)

\* GET /api/sessions/:sessionId/messages
RemoteGetMessages(rows, sid) == SortByTimestampAsc(OfSession(rows, sid))

\* POST /api/messages: the INSERT needs the session row (foreign key)
RemoteCanSaveMessage(srows, m) == HasId(srows, m.sessionId)

RemoteSaveMessageRows(mrows, m) == Append(mrows, m)

\* UPDATE sessions SET updated_at = timestamp, preview = ... WHERE id = sessionId
RemoteSaveMessageSessions(srows, m) ==
  [i \in 1..Len(srows) |->
     IF srows[i].id = m.sessionId
     THEN [srows[i] EXCEPT !.updatedAt = m.timestamp,
                           !.preview = MakePreview(m.content)]
     ELSE srows[i]]

\* ------------------------------------------- the localStorage fallback (ls)
LocalCreateSession(list, s) == <<s>> \o list

\* sessions.map(s => s.id === id ? { ...s, ...updates } : s)
LocalUpdateTitle(list, id, title) ==
  [i \in 1..Len(list) |->
     IF list[i].id = id THEN [list[i] EXCEPT !.title = title] ELSE list[i]]

LocalDeleteSession(list, id) == WithoutId(list, id)

\* localStorage.removeItem(`messages_${id}`)
LocalRemoveMessages(list, id) == SelectSeq(list, LAMBDA m : m.sessionId # id)

LocalGetMessages(list, sid) == OfSession(list, sid)

LocalSaveMessageRows(list, m) == Append(list, m)

\* the fallback of saveMessage: refresh preview and updatedAt, move to top
LocalSaveMessageSessions(list, m, t) ==
  LET i == IndexOfId(list, m.sessionId) IN
  IF i = 0 THEN list
  ELSE <<[list[i] EXCEPT !.updatedAt = t, !.preview = MakePreview(m.content)]>>
         \o RemoveAt(list, i)

\* ------------------------------------------------- gateway calls (apiRequest)
\* apiRequest: the fallback runs when the operation throws. The calls a
\* behaviour may lose to an unreachable server are counted.
Served(outcome) ==
  /\ outcome # "remote" => faults < MaxFaults
  /\ faults' = IF outcome = "remote" THEN faults ELSE faults + 1

\* saveMessage: the remote POST needs the session row; without it the server
\* answers 500, the client throws and the fallback runs (the server was
\* reachable: not counted)
SaveServed(m, outcome) ==
  IF RemoteCanSaveMessage(dbSessions, m)
  THEN Served(outcome)
  ELSE /\ outcome # "remote"
       /\ outcome = "throw" => faults < MaxFaults
       /\ faults' = IF outcome = "throw" THEN faults + 1 ELSE faults

\* the effect of saveMessage(m) on the stores
SaveMessageEffect(m, outcome) ==
  CASE outcome = "remote" ->
         /\ dbMessages' = RemoteSaveMessageRows(dbMessages, m)
         /\ dbSessions' = RemoteSaveMessageSessions(dbSessions, m)
         /\ UNCHANGED <<lsSessions, lsMessages>>
    [] outcome = "local" ->
         /\ lsMessages' = LocalSaveMessageRows(lsMessages, m)
         /\ lsSessions' = LocalSaveMessageSessions(lsSessions, m, now)
         /\ UNCHANGED <<dbSessions, dbMessages>>
    [] OTHER -> UNCHANGED storeVars

\* the effect of updateSession(id, { title }) on the stores
UpdateTitleEffect(id, title, outcome) ==
  CASE outcome = "remote" ->
         /\ dbSessions' = RemoteUpdateTitle(dbSessions, id, title)
         /\ UNCHANGED <<dbMessages, lsSessions, lsMessages>>
    [] outcome = "local" ->
         /\ lsSessions' = LocalUpdateTitle(lsSessions, id, title)
         /\ UNCHANGED <<dbSessions, dbMessages, lsMessages>>
    [] OTHER -> UNCHANGED storeVars

\* the effect of createSession on the stores
CreateSessionEffect(s, outcome) ==
  CASE outcome = "remote" ->
         /\ dbSessions' = RemoteCreateSession(dbSessions, s)
         /\ UNCHANGED <<dbMessages, lsSessions, lsMessages>>
    [] outcome = "local" ->
         /\ lsSessions' = LocalCreateSession(lsSessions, s)
         /\ UNCHANGED <<dbSessions, dbMessages, lsMessages>>
    [] OTHER -> UNCHANGED storeVars

\* the effect of deleteSession(id) on the stores
DeleteSessionEffect(id, outcome) ==
  CASE outcome = "remote" ->
         /\ dbSessions' = RemoteDeleteSession(dbSessions, id)
         /\ dbMessages' = RemoteCascadeMessages(dbMessages, id)
         /\ UNCHANGED <<lsSessions, lsMessages>>
    [] outcome = "local" ->
         /\ lsSessions' = LocalDeleteSession(lsSessions, id)
         /\ lsMessages' = LocalRemoveMessages(lsMessages, id)
         /\ UNCHANGED <<dbSessions, dbMessages>>
    [] OTHER -> UNCHANGED storeVars

\* getSessions / getMessagesBySession, served by the remote store or the fallback
GetSessions(outcome) ==
  IF outcome = "remote" THEN RemoteGetSessions(dbSessions) ELSE lsSessions

GetMessagesBySession(sid, outcome) ==
  IF outcome = "remote" THEN RemoteGetMessages(dbMessages, sid)
  ELSE LocalGetMessages(lsMessages, sid)

\* ------------------------------------------------------------ React helpers
NewSession(id, t) ==
  [id |-> id, title |-> NewChat, preview |-> StartPreview,
   createdAt |-> t, updatedAt |-> t]

NewMessage(id, sid, role, content, t, isError) ==
  [id |-> id, sessionId |-> sid, role |-> role, content |-> content,
   timestamp |-> t, isError |-> isError]

\* setCurrentSessionId(id), and the effect on [currentSessionId] that starts
\* loadMessages when the value changed
SetCurrentSessionId(id) ==
  /\ currentSessionId' = id
  /\ loads' = IF id # currentSessionId THEN Append(loads, id) ELSE loads

\* mutant: the preview and updatedAt are set where the session stands
UpdateSessionPreviewInPlace(prev, sessionId, lastMessage, t) ==
  [i \in 1..Len(prev) |->
     IF prev[i].id = sessionId
     THEN [prev[i] EXCEPT !.preview = MakePreview(lastMessage), !.updatedAt = t]
     ELSE prev[i]]

\* updateSessionPreviewLocally's updater
UpdateSessionPreviewLocally(prev, sessionId, lastMessage, t) ==
  LET index == IndexOfId(prev, sessionId) IN
  IF index = 0 THEN prev
  ELSE <<[prev[index] EXCEPT !.preview = MakePreview(lastMessage),
                             !.updatedAt = t]>> \o RemoveAt(prev, index)

\* prev.map(s => s.id === currentSessionId ? { ...s, title: newTitle } : s)
SetTitle(prev, sid, newTitle) ==
  [i \in 1..Len(prev) |->
     IF prev[i].id = sid THEN [prev[i] EXCEPT !.title = newTitle] ELSE prev[i]]

\* prev.map(m => m.id === id ? { ...m, content } : m)
SetContent(prev, id, content) ==
  [i \in 1..Len(prev) |->
     IF prev[i].id = id THEN [prev[i] EXCEPT !.content = content] ELSE prev[i]]

\* mutant: the failed message is flagged but keeps the partial output
SetErrorKeepContent(prev, id) ==
  [i \in 1..Len(prev) |->
     IF prev[i].id = id THEN [prev[i] EXCEPT !.isError = TRUE] ELSE prev[i]]

\* prev.map(m => m.id === id ? { ...m, content: t.error, isError: true } : m)
SetError(prev, id) ==
  [i \in 1..Len(prev) |->
     IF prev[i].id = id
     THEN [prev[i] EXCEPT !.content = ErrorString, !.isError = TRUE]
     ELSE prev[i]]

\* mutant: the target is replaced by a fresh message instead of being reset
ResetMessageFresh(prev, id) ==
  [i \in 1..Len(prev) |->
     IF prev[i].id = id
     THEN [prev[i] EXCEPT !.content = <<>>, !.isError = FALSE, !.timestamp = now]
     ELSE prev[i]]

\* prev.map(m => m.id === id ? { ...m, content: '', isError: false } : m)
ResetMessage(prev, id) ==
  [i \in 1..Len(prev) |->
     IF prev[i].id = id
     THEN [prev[i] EXCEPT !.content = <<>>, !.isError = FALSE]
     ELSE prev[i]]

\* currentSession && (title === 'New Chat' || title === '新对话')
IsDefaultTitle(list, sid) ==
  LET i == IndexOfId(list, sid) IN
  i # 0 /\ list[i].title \in {NewChat, NewChatZh}

\* ------------------------------------------------------------------- Init
\* The state after the first render: the React state is empty, loadData is
\* awaiting getSessions, and the stores are empty (first run).
Init ==
  /\ sessions = <<>>
  /\ currentSessionId = NoSession
  /\ messages = <<>>
  /\ isGenerating = FALSE
  /\ now = 1
  /\ nextId = 1
  /\ nextSid = 1
  /\ dbSessions = <<>>
  /\ dbMessages = <<>>
  /\ lsSessions = <<>>
  /\ lsMessages = <<>>
  /\ boot = "loading"
  /\ gens = {}
  /\ writes = {}
  /\ titleJobs = {}
  /\ creates = {}
  /\ deletes = {}
  /\ loads = <<>>
  /\ calls = <<>>
  /\ faults = 0
  /\ searchResults = NullResults

\* ---------------------------------------------------------- the clock
\* time passes between two events
Tick ==
  /\ UNCHANGED <<faults, searchResults>>
  /\ now < MaxTime
  /\ now' = now + 1
  /\ UNCHANGED <<reactVars, storeVars, asyncVars, nextId, nextSid, calls>>

\* ---------------------------------------------------------- session store
\* loadData after await getSessions()
LoadDataReturn(outcome) ==
  /\ boot = "loading"
  /\ boot' = "ready"
  /\ UNCHANGED searchResults
  /\ Served(outcome)
  /\ LET storedSessions == GetSessions(outcome) IN
     /\ sessions' = storedSessions
     /\ IF Len(storedSessions) > 0
        THEN /\ SetCurrentSessionId(storedSessions[1].id)
             /\ UNCHANGED <<creates, nextSid>>
        ELSE /\ creates' = creates \cup {NewSession(nextSid, now)}
             /\ nextSid' = nextSid + 1
             /\ UNCHANGED <<currentSessionId, loads>>
  /\ UNCHANGED <<messages, isGenerating, now, nextId, storeVars, gens, writes,
                 titleJobs, deletes, calls>>

\* handleCreateSession up to await createSession()
HandleCreateSession ==
  /\ UNCHANGED <<faults, searchResults>>
  /\ nextSid <= MaxSessions
  /\ creates' = creates \cup {NewSession(nextSid, now)}
  /\ nextSid' = nextSid + 1
  /\ UNCHANGED <<reactVars, storeVars, now, nextId, boot, gens, writes,
                 titleJobs, deletes, loads, calls>>

\* handleCreateSession after await createSession()
CreateReturn(newSession, outcome) ==
  /\ newSession \in creates
  /\ creates' = creates \ {newSession}
  /\ UNCHANGED searchResults
  /\ Served(outcome)
  /\ CreateSessionEffect(newSession, outcome)
  /\ IF outcome = "throw"
     THEN UNCHANGED <<sessions, currentSessionId, loads>>
     ELSE /\ sessions' = <<newSession>> \o sessions
          /\ SetCurrentSessionId(newSession.id)
  /\ UNCHANGED <<messages, isGenerating, now, nextId, nextSid, boot, gens,
                 writes, titleJobs, deletes, calls>>

\* onSelectSession = setCurrentSessionId, with at most maxLoads loads pending
SelectSessionWithin(id, maxLoads) ==
  /\ UNCHANGED <<faults, searchResults>>
  /\ HasId(sessions, id)
  /\ id # currentSessionId
  /\ Len(loads) < maxLoads
  /\ SetCurrentSessionId(id)
  /\ UNCHANGED <<sessions, messages, isGenerating, now, nextId, nextSid,
                 storeVars, boot, gens, writes, titleJobs, creates, deletes,
                 calls>>

SelectSession(id) == SelectSessionWithin(id, MaxLoads)

\* loadMessages after await getMessagesBySession()
LoadReturn(i, outcome) ==
  /\ i \in 1..Len(loads)
  /\ UNCHANGED searchResults
  /\ Served(outcome)
  /\ loads' = RemoveAt(loads, i)
  /\ messages' = GetMessagesBySession(loads[i], outcome)
  /\ UNCHANGED <<sessions, currentSessionId, isGenerating, now, nextId,
                 nextSid, storeVars, boot, gens, writes, titleJobs, creates,
                 deletes, calls>>

\* handleDeleteSession up to await deleteSession(id)
HandleDeleteSession(id) ==
  /\ UNCHANGED <<faults, searchResults>>
  /\ HasId(sessions, id)
  /\ nextSid <= MaxDeleteSid
  /\ deletes' = deletes \cup
       {[id |-> id, prevSessions |-> sessions, currentSessionId |-> currentSessionId]}
  /\ sessions' = WithoutId(sessions, id)
  /\ UNCHANGED <<currentSessionId, messages, isGenerating, now, nextId,
                 nextSid, storeVars, boot, gens, writes, titleJobs, creates,
                 loads, calls>>

\* handleDeleteSession after await deleteSession(id)
DeleteReturn(d, outcome) ==
  /\ d \in deletes
  /\ deletes' = deletes \ {d}
  /\ UNCHANGED searchResults
  /\ Served(outcome)
  /\ DeleteSessionEffect(d.id, outcome)
  /\ LET remaining == WithoutId(d.prevSessions, d.id) IN
     IF outcome = "throw" \/ d.currentSessionId # d.id
     THEN UNCHANGED <<currentSessionId, loads, creates, nextSid>>
     ELSE IF Len(remaining) > 0
     THEN /\ SetCurrentSessionId(remaining[1].id)
          /\ UNCHANGED <<creates, nextSid>>
     ELSE /\ creates' = creates \cup {NewSession(nextSid, now)}
          /\ nextSid' = nextSid + 1
          /\ UNCHANGED <<currentSessionId, loads>>
  /\ UNCHANGED <<sessions, messages, isGenerating, now, nextId, boot, gens,
                 writes, titleJobs, calls>>

\* ------------------------------------------------------ conversation engine
\* mutant: the guard of handleSendMessage without the isGenerating test
SendGuardNoGate(inputValue) ==
  /\ Trim(inputValue) # <<>>
  /\ currentSessionId # NoSession

\* mutant: the guards of handleRegenerate without the isGenerating test
RegenerateGuardNoGate(targetMessageId) ==
  /\ currentSessionId # NoSession
  /\ IndexOfId(messages, targetMessageId) > 1
  /\ messages[IndexOfId(messages, targetMessageId) - 1].role = UserRole

\* if (!inputValue.trim() || !currentSessionId || isGenerating) return;
SendGuard(inputValue) ==
  /\ Trim(inputValue) # <<>>
  /\ currentSessionId # NoSession
  /\ ~isGenerating

\* the guards of handleRegenerate, down to the prevMsg check
RegenerateGuard(targetMessageId) ==
  /\ currentSessionId # NoSession
  /\ ~isGenerating
  /\ IndexOfId(messages, targetMessageId) # 0
  /\ IndexOfId(messages, targetMessageId) > 1
  /\ messages[IndexOfId(messages, targetMessageId) - 1].role = UserRole

\* the history handleSendMessage passes: const historyContext = messages
SendHistory == messages

\* mutant: the history of a regenerate keeps the prompt
RegenerateHistoryWithPrompt(msgIndex) == SubSeq(messages, 1, msgIndex - 1)

\* the history handleRegenerate passes: messages.slice(0, msgIndex - 1)
RegenerateHistory(msgIndex) == SubSeq(messages, 1, msgIndex - 2)

\* mutant: the title condition tests for a non-empty view
SendWantsTitleInverted ==
  IsDefaultTitle(sessions, currentSessionId) /\ Len(messages) # 0

\* the title condition of handleSendMessage
SendWantsTitle == IsDefaultTitle(sessions, currentSessionId) /\ Len(messages) = 0

\* the promise of an invocation that returned at a guard
NoOpCall(kind) == [kind |-> kind, accepted |-> FALSE, status |-> "fulfilled"]

AcceptedCall(kind) == [kind |-> kind, accepted |-> TRUE, status |-> "pending"]

\* handleSendMessage up to await streamChatResponse(...)
HandleSendMessage(inputValue) ==
  /\ UNCHANGED <<faults, searchResults>>
  /\ Len(calls) < MaxCalls
  /\ IF ~SendGuard(inputValue)
     THEN /\ calls' = Append(calls, NoOpCall("send"))
          /\ UNCHANGED <<reactVars, storeVars, asyncVars, now, nextId, nextSid>>
     ELSE LET textToSend == Trim(inputValue)
              userMsg == NewMessage(nextId, currentSessionId, UserRole,
                                    textToSend, now, FALSE)
              savedMsg == NewMessage(nextId + 1, currentSessionId, UserRole,
                                     textToSend, now, FALSE)
              initialBotMsg == NewMessage(nextId + 2, currentSessionId,
                                          ModelRole, <<>>, now, FALSE)
          IN
          /\ calls' = Append(calls, AcceptedCall("send"))
          /\ messages' = messages \o <<userMsg, initialBotMsg>>
          /\ writes' = writes \cup
               {[type |-> "message", sid |-> currentSessionId,
                 msg |-> savedMsg, title |-> <<>>]}
          /\ isGenerating' = TRUE
          /\ nextId' = nextId + 3
          /\ titleJobs' = IF SendWantsTitle
                          THEN titleJobs \cup {[sid |-> currentSessionId,
                                                text |-> textToSend]}
                          ELSE titleJobs
          /\ gens' = gens \cup
               {[op |-> Len(calls) + 1, kind |-> "send",
                 sid |-> currentSessionId, target |-> initialBotMsg.id,
                 text |-> textToSend, history |-> SendHistory,
                 fullText |-> <<>>, fullResponse |-> <<>>, pc |-> "stream",
                 saving |-> NoMsg, isDefaultTitle |-> FALSE, length |-> 0]}
          /\ UNCHANGED <<sessions, currentSessionId, storeVars, now, nextSid,
                         boot, creates, deletes, loads>>

\* handleRegenerate up to await streamChatResponse(...)
HandleRegenerate(targetMessageId) ==
  /\ UNCHANGED <<faults, searchResults>>
  /\ Len(calls) < MaxCalls
  /\ IF ~RegenerateGuard(targetMessageId)
     THEN /\ calls' = Append(calls, NoOpCall("regenerate"))
          /\ UNCHANGED <<reactVars, storeVars, asyncVars, now, nextId, nextSid>>
     ELSE LET msgIndex == IndexOfId(messages, targetMessageId)
              textToSend == messages[msgIndex - 1].content
          IN
          /\ calls' = Append(calls, AcceptedCall("regenerate"))
          /\ isGenerating' = TRUE
          /\ messages' = ResetMessage(messages, targetMessageId)
          /\ gens' = gens \cup
               {[op |-> Len(calls) + 1, kind |-> "regenerate",
                 sid |-> currentSessionId, target |-> targetMessageId,
                 text |-> textToSend, history |-> RegenerateHistory(msgIndex),
                 fullText |-> <<>>, fullResponse |-> <<>>, pc |-> "stream",
                 saving |-> NoMsg,
                 isDefaultTitle |-> IsDefaultTitle(sessions, currentSessionId),
                 length |-> Len(messages)]}
          /\ UNCHANGED <<sessions, currentSessionId, storeVars, now, nextId,
                         nextSid, boot, writes, titleJobs, creates, deletes,
                         loads>>

\* one iteration of streamChatResponse's for-await loop: fullText += text;
\* onChunk(fullText). A chunk comes over the network: the clock has advanced.
StreamChunk(g) ==
  /\ UNCHANGED <<faults, searchResults>>
  /\ g \in gens
  /\ g.pc = "stream"
  /\ Len(g.fullText) < MaxChunks * Len(Piece)
  /\ now' = now + 1
  /\ LET fullText == g.fullText \o Piece IN
     /\ gens' = (gens \ {g}) \cup
          {[g EXCEPT !.fullText = fullText, !.fullResponse = fullText]}
     /\ messages' = SetContent(messages, g.target, fullText)
  /\ UNCHANGED <<sessions, currentSessionId, isGenerating, nextId,
                 nextSid, storeVars, boot, writes, titleJobs, creates,
                 deletes, loads, calls>>

\* mutant: setIsGenerating(false) after the try statement instead of in its
\* finally block, so that a throw inside catch skips it
FinallyAfterTry(g, status) ==
  /\ isGenerating' = IF status = "rejected" THEN isGenerating ELSE FALSE
  /\ gens' = gens \ {g}
  /\ calls' = [calls EXCEPT ![g.op].status = status]

\* finally { setIsGenerating(false) }, and the invocation's promise settles
Finally(g, status) ==
  /\ isGenerating' = FALSE
  /\ gens' = gens \ {g}
  /\ calls' = [calls EXCEPT ![g.op].status = status]

\* the catch block of handleSendMessage up to its await saveMessage(...)
SendCatch(g) ==
  /\ messages' = SetError(messages, g.target)
  /\ gens' = (gens \ {g}) \cup
       {[g EXCEPT !.pc = "errsave",
                  !.saving = NewMessage(nextId, g.sid, ModelRole, ErrorString,
                                        now, TRUE)]}
  /\ nextId' = nextId + 1
  /\ UNCHANGED <<isGenerating, calls>>

\* the catch block of handleRegenerate, and its finally
RegenerateCatch(g) ==
  /\ messages' = SetError(messages, g.target)
  /\ Finally(g, "fulfilled")
  /\ UNCHANGED nextId

\* streamChatResponse resolves (the end of the stream comes over the network:
\* the clock has advanced): await saveMessage(sid, Role.Model, fullResponse)
StreamResolve(g) ==
  /\ UNCHANGED <<faults, searchResults>>
  /\ g \in gens
  /\ g.pc = "stream"
  /\ now' = now + 1
  /\ gens' = (gens \ {g}) \cup
       {[g EXCEPT !.pc = "save",
                  !.saving = NewMessage(nextId, g.sid, ModelRole,
                                        g.fullResponse, now', FALSE)]}
  /\ nextId' = nextId + 1
  /\ UNCHANGED <<reactVars, storeVars, nextSid, boot, writes, titleJobs,
                 creates, deletes, loads, calls>>

\* streamChatResponse throws
StreamFail(g) ==
  /\ UNCHANGED <<faults, searchResults>>
  /\ g \in gens
  /\ g.pc = "stream"
  /\ IF g.kind = "send" THEN SendCatch(g) ELSE RegenerateCatch(g)
  /\ UNCHANGED <<sessions, currentSessionId, storeVars, now, nextSid, boot,
                 writes, titleJobs, creates, deletes, loads>>

\* the title condition handleRegenerate evaluates after the save, on the
\* sessions and messages of the render that invoked it
RegenerateWantsTitle(g) == g.isDefaultTitle /\ g.length <= 2

\* await saveMessage(sid, Role.Model, fullResponse) returns or throws
SaveReturn(g, outcome) ==
  /\ g \in gens
  /\ g.pc = "save"
  /\ UNCHANGED searchResults
  /\ SaveServed(g.saving, outcome)
  /\ SaveMessageEffect(g.saving, outcome)
  /\ IF outcome = "throw"
     THEN /\ IF g.kind = "send" THEN SendCatch(g) ELSE RegenerateCatch(g)
          /\ UNCHANGED <<sessions, titleJobs>>
     ELSE /\ sessions' = UpdateSessionPreviewLocally(sessions, g.sid,
                                                     g.fullResponse, now)
          /\ titleJobs' = IF g.kind = "regenerate" /\ RegenerateWantsTitle(g)
                          THEN titleJobs \cup {[sid |-> g.sid, text |-> g.text]}
                          ELSE titleJobs
          /\ Finally(g, "fulfilled")
          /\ UNCHANGED <<messages, nextId>>
  /\ UNCHANGED <<currentSessionId, now, nextSid, boot, writes, creates,
                 deletes, loads>>

\* await saveMessage(sid, Role.Model, t.error, true) in the catch block of
\* handleSendMessage returns or throws
ErrorSaveReturn(g, outcome) ==
  /\ g \in gens
  /\ g.pc = "errsave"
  /\ UNCHANGED searchResults
  /\ SaveServed(g.saving, outcome)
  /\ SaveMessageEffect(g.saving, outcome)
  /\ Finally(g, IF outcome = "throw" THEN "rejected" ELSE "fulfilled")
  /\ UNCHANGED <<sessions, currentSessionId, messages, now, nextId, nextSid,
                 boot, writes, titleJobs, creates, deletes, loads>>

\* mutant: the title is applied only once no generation is running
TitleReturnAfterGeneration(j, newTitle) ==
  /\ UNCHANGED <<faults, searchResults>>
  /\ ~isGenerating
  /\ j \in titleJobs
  /\ titleJobs' = titleJobs \ {j}
  /\ sessions' = SetTitle(sessions, j.sid, newTitle)
  /\ writes' = writes \cup
       {[type |-> "title", sid |-> j.sid, msg |-> NoMsg, title |-> newTitle]}
  /\ UNCHANGED <<currentSessionId, messages, isGenerating, now, nextId,
                 nextSid, storeVars, boot, gens, creates, deletes, loads,
                 calls>>

\* mutant: the title goes to the session that is active when it arrives
TitleReturnToActive(j, newTitle) ==
  /\ UNCHANGED <<faults, searchResults>>
  /\ j \in titleJobs
  /\ titleJobs' = titleJobs \ {j}
  /\ sessions' = SetTitle(sessions, currentSessionId, newTitle)
  /\ writes' = writes \cup
       {[type |-> "title", sid |-> currentSessionId, msg |-> NoMsg,
         title |-> newTitle]}
  /\ UNCHANGED <<currentSessionId, messages, isGenerating, now, nextId,
                 nextSid, storeVars, boot, gens, creates, deletes, loads,
                 calls>>

\* generateTitle(...).then(async newTitle => { setSessions(...); await
\* updateSession(sid, { title: newTitle }) })
TitleReturn(j, newTitle) ==
  /\ UNCHANGED <<faults, searchResults>>
  /\ j \in titleJobs
  /\ titleJobs' = titleJobs \ {j}
  /\ sessions' = SetTitle(sessions, j.sid, newTitle)
  /\ writes' = writes \cup
       {[type |-> "title", sid |-> j.sid, msg |-> NoMsg, title |-> newTitle]}
  /\ UNCHANGED <<currentSessionId, messages, isGenerating, now, nextId,
                 nextSid, storeVars, boot, gens, creates, deletes, loads,
                 calls>>

\* a gateway write nobody waits for reaches a store: the user message of
\* handleSendMessage (its rejection is logged) or the title of updateSession
WriteReturn(w, outcome) ==
  /\ UNCHANGED searchResults
  /\ w \in writes
  /\ writes' = writes \ {w}
  /\ IF w.type = "message"
     THEN /\ SaveServed(w.msg, outcome)
          /\ SaveMessageEffect(w.msg, outcome)
     ELSE /\ Served(outcome)
          /\ UpdateTitleEffect(w.sid, w.title, outcome)
  /\ UNCHANGED <<reactVars, now, nextId, nextSid, boot, gens, titleJobs,
                 creates, deletes, loads, calls>>

\* --------------------------------------------------------- specifications
\* the stores of a browser that ran the application before, against the
\* server: two sessions, no messages
InitReturning ==
  /\ sessions = <<>>
  /\ currentSessionId = NoSession
  /\ messages = <<>>
  /\ isGenerating = FALSE
  /\ now = 1
  /\ nextId = 1
  /\ nextSid = 3
  /\ dbSessions = <<NewSession(1, 1), NewSession(2, 1)>>
  /\ dbMessages = <<>>
  /\ lsSessions = <<>>
  /\ lsMessages = <<>>
  /\ boot = "loading"
  /\ gens = {}
  /\ writes = {}
  /\ titleJobs = {}
  /\ creates = {}
  /\ deletes = {}
  /\ loads = <<>>
  /\ calls = <<>>
  /\ faults = 0
  /\ searchResults = NullResults

\* The conversation engine on the session of a first run, with every outcome
\* of every gateway call.
Next ==
  \/ \E o \in {"remote", "local"} : LoadDataReturn(o)
  \/ \E c \in creates, o \in Outcomes : CreateReturn(c, o)
  \/ \E i \in 1..Len(loads), o \in {"remote", "local"} : LoadReturn(i, o)
  \/ \E v \in InputValues : HandleSendMessage(v)
  \/ \E i \in 1..Len(messages) : HandleRegenerate(messages[i].id)
  \/ \E g \in gens : StreamChunk(g)
  \/ \E g \in gens : StreamResolve(g)
  \/ \E g \in gens : StreamFail(g)
  \/ \E g \in gens, o \in Outcomes : SaveReturn(g, o)
  \/ \E g \in gens, o \in Outcomes : ErrorSaveReturn(g, o)
  \/ \E j \in titleJobs, t \in TitleResults : TitleReturn(j, t)
  \/ \E w \in writes, o \in Outcomes : WriteReturn(w, o)

Spec == Init /\ [][Next]_vars

\* The conversation engine while the user switches between two sessions; the
\* server answers every call.
NextSwitch ==
  \/ LoadDataReturn("remote")
  \/ \E id \in 1..(nextSid - 1) : SelectSession(id)
  \/ \E i \in 1..Len(loads) : LoadReturn(i, "remote")
  \/ \E v \in InputValues : HandleSendMessage(v)
  \/ \E i \in 1..Len(messages) : HandleRegenerate(messages[i].id)
  \/ \E g \in gens : StreamChunk(g)
  \/ \E g \in gens : StreamResolve(g)
  \/ \E g \in gens : StreamFail(g)
  \/ \E g \in gens : SaveReturn(g, "remote")
  \/ \E g \in gens : ErrorSaveReturn(g, "remote")
  \/ \E j \in titleJobs, t \in TitleResults : TitleReturn(j, t)
  \/ \E w \in writes : WriteReturn(w, "remote")

SpecSwitch == InitReturning /\ [][NextSwitch]_vars

\* The session store: sessions are created and deleted while one exchange
\* runs; the server answers every call.
NextStore ==
  \/ Tick
  \/ LoadDataReturn("remote")
  \/ HandleCreateSession
  \/ \E c \in creates : CreateReturn(c, "remote")
  \/ \E i \in 1..Len(loads) : LoadReturn(i, "remote")
  \/ \E id \in 1..(nextSid - 1) : nextSid <= MaxSessions /\ HandleDeleteSession(id)
  \/ \E d \in deletes : DeleteReturn(d, "remote")
  \/ Len(calls) < MaxStoreCalls /\ HandleSendMessage(<<" ","h","i"," ">>)
  \/ \E g \in gens : StreamResolve(g)
  \/ \E g \in gens : SaveReturn(g, "remote")
  \/ \E j \in titleJobs : TitleReturn(j, DerivedTitle)
  \/ \E w \in writes : WriteReturn(w, "remote")

SpecStore == Init /\ [][NextStore]_vars

\* The conversation engine on the session of a first run, when the server
\* answers every call and the user acts once the session's messages are loaded.
NextTrip ==
  \/ LoadDataReturn("remote")
  \/ \E c \in creates : CreateReturn(c, "remote")
  \/ \E i \in 1..Len(loads) : LoadReturn(i, "remote")
  \/ \E v \in InputValues : loads = <<>> /\ HandleSendMessage(v)
  \/ \E i \in 1..Len(messages) : loads = <<>> /\ HandleRegenerate(messages[i].id)
  \/ \E g \in gens : StreamChunk(g)
  \/ \E g \in gens : StreamResolve(g)
  \/ \E g \in gens : StreamFail(g)
  \/ \E g \in gens : SaveReturn(g, "remote")
  \/ \E g \in gens : ErrorSaveReturn(g, "remote")
  \/ \E j \in titleJobs, t \in TitleResults : TitleReturn(j, t)
  \/ \E w \in writes : WriteReturn(w, "remote")

SpecTrip == Init /\ [][NextTrip]_vars

\* Deleting the sessions of an earlier run, one exchange in flight; the
\* server answers a call or is unreachable and the fallback serves it.
NextDelete ==
  \/ LoadDataReturn("remote")
  \/ \E c \in creates, o \in {"remote", "local"} : CreateReturn(c, o)
  \/ \E i \in 1..Len(loads) : LoadReturn(i, "remote")
  \/ \E id \in 1..(nextSid - 1) : HandleDeleteSession(id)
  \/ \E d \in deletes, o \in {"remote", "local"} : DeleteReturn(d, o)
  \/ Len(calls) < MaxStoreCalls /\ HandleSendMessage(<<" ","h","i"," ">>)
  \/ \E g \in gens : StreamResolve(g)
  \/ \E g \in gens, o \in {"remote", "local"} : SaveReturn(g, o)
  \/ \E j \in titleJobs : TitleReturn(j, DerivedTitle)
  \/ \E w \in writes, o \in {"remote", "local"} : WriteReturn(w, o)

SpecDelete == InitReturning /\ [][NextDelete]_vars

\* Spec, with what the claims about termination assume: the stream call and
\* every awaited persistence call eventually return.
LiveSpec ==
  /\ Spec
  /\ WF_vars(\E g \in gens : StreamResolve(g) \/ StreamFail(g))
  /\ WF_vars(\E g \in gens, o \in Outcomes : SaveReturn(g, o))
  /\ WF_vars(\E g \in gens, o \in Outcomes : ErrorSaveReturn(g, o))

\* ------------------------------------------------------------------ claims
\* an invocation of handleSendMessage / handleRegenerate happens in this step
Invoked(kind) ==
  /\ Len(calls') = Len(calls) + 1
  /\ calls'[Len(calls')].kind = kind

\* C1: at most one generation is in flight at any instant: no two
\* invocations of send / regenerate are between their gate and their finally
\* block at the same time, so no two streams are active and no two write
\* message content concurrently; isGenerating is true exactly while one is.
C1_OneGenerationInFlight ==
  /\ Cardinality(gens) <= 1
  /\ isGenerating <=> gens # {}

\* a stream is active for one session while the user is in the other one, and
\* an invocation issued after it started was turned down
C1_Witness ==
  \E g \in gens :
    /\ g.pc = "stream"
    /\ currentSessionId # g.sid
    /\ \E k \in 1..Len(calls) : k > g.op /\ ~calls[k].accepted

\* C2: send invoked while isGenerating is true is a no-op: messages, the
\* session list, the stores and isGenerating are unchanged and neither the
\* Generation Client nor the Title Deriver nor the gateway is called.
C2_SendWhileGeneratingNoOp ==
  [][(Invoked("send") /\ isGenerating)
       => UNCHANGED <<reactVars, storeVars, asyncVars, nextId, nextSid>>]_vars

\* a send with text to send was turned down while a generation was in flight
C2_Witness ==
  \E g \in gens : \E k \in 1..Len(calls) :
    /\ k > g.op
    /\ calls[k] = NoOpCall("send")
    /\ isGenerating

\* C3: every accepted send or regenerate eventually sets isGenerating back to
\* false, whether the generation and the durable writes succeed or fail,
\* provided the stream call and each persistence call return.
C3_GenerationEnds == isGenerating ~> ~isGenerating

\* an accepted send whose generation failed and whose durable write of the
\* error message failed too has returned, and isGenerating is false again
C3_Witness ==
  \E k \in 1..Len(calls) :
    /\ calls[k].accepted
    /\ calls[k].status = "rejected"
    /\ ~isGenerating

\* the stream of the send g throws in this step
SendStreamFails(g) ==
  /\ g \in gens
  /\ g.kind = "send"
  /\ g.pc = "stream"
  /\ \E h \in gens' : h.op = g.op /\ h.pc = "errsave"

\* the send g, whose generation failed, returns in this step
FailedSendReturns(g) ==
  /\ g \in gens
  /\ g.pc = "errsave"
  /\ g \notin gens'

\* C4: when the Generation Client fails during send, the stream-target Model
\* message gets isError = true and the fixed error string as content, whatever
\* chunks were delivered; every other message (the User message included) is
\* unchanged; the session list (previews, updatedAt, order) is unchanged; and
\* nothing of this changes again when the send returns.
C4_FailedSendMarksMessage ==
  [][\A g \in gens :
       /\ SendStreamFails(g) =>
            /\ sessions' = sessions
            /\ Len(messages') = Len(messages)
            /\ \A i \in 1..Len(messages) :
                 IF messages[i].id = g.target
                 THEN /\ messages'[i].isError
                      /\ messages'[i].content = ErrorString
                      /\ messages'[i].id = g.target
                 ELSE messages'[i] = messages[i]
       /\ FailedSendReturns(g) =>
            /\ sessions' = sessions
            /\ messages' = messages]_vars

\* a send in the second session of the list failed after a chunk had been
\* delivered: its message is in the view, in the failed state, behind the
\* User message, and the session is still second
C4_Witness ==
  \E g \in gens :
    /\ g.kind = "send"
    /\ g.pc = "errsave"
    /\ g.fullResponse # <<>>
    /\ Len(sessions) = 2
    /\ sessions[2].id = g.sid
    /\ \E i \in 2..Len(messages) :
         /\ messages[i].id = g.target
         /\ messages[i].isError
         /\ messages[i].content = ErrorString
         /\ messages[i - 1].role = UserRole

\* the stored rows of session sid hold an error-state message
HoldsErrorMessage(rows, sid) ==
  \E i \in 1..Len(rows) : rows[i].sessionId = sid /\ rows[i].isError

\* C5: a failed generation produces no preview update in the stores either:
\* once the error-state message of a failed send has been durably saved, the
\* durable record of its session does not have the error string as preview.
C5_DurablePreviewNotError ==
  /\ \A i \in 1..Len(dbSessions) :
       HoldsErrorMessage(dbMessages, dbSessions[i].id)
         => dbSessions[i].preview # ErrorString
  /\ \A i \in 1..Len(lsSessions) :
       HoldsErrorMessage(lsMessages, lsSessions[i].id)
         => lsSessions[i].preview # ErrorString

\* C6: a title derivation that fails or yields no title (generateTitle's
\* null) leaves the title as it was, in memory and in the stores: no session
\* ever has the null result as its title.
C6_FailedTitleLeavesTitle ==
  /\ \A i \in 1..Len(sessions) : sessions[i].title # NullTitle
  /\ \A i \in 1..Len(dbSessions) : dbSessions[i].title # NullTitle
  /\ \A i \in 1..Len(lsSessions) : lsSessions[i].title # NullTitle

\* the awaited write of the final Model message of g throws in this step
ModelWriteFails(g) ==
  /\ g \in gens
  /\ g.pc = "save"
  /\ g \notin gens'
  /\ UNCHANGED storeVars

\* the write of a User message, which nobody waits for, throws in this step
UserWriteFails(w) ==
  /\ w \in writes
  /\ w.type = "message"
  /\ w \notin writes'
  /\ UNCHANGED storeVars

\* C7: a persistence failure does not alter in-memory state: when the durable
\* write of the final Model message fails after a successful generation, or
\* the durable write of the User message fails, the in-memory messages are
\* what they were (the Model message keeps its content and isError = false).
C7_WriteFailureKeepsMessages ==
  [][/\ \A g \in gens : ModelWriteFails(g) => messages' = messages
     /\ \A w \in writes : UserWriteFails(w) => messages' = messages]_vars

\* C8: send and regenerate never propagate a failure to their caller: the
\* promise of every invocation is pending or fulfilled, never rejected.
C8_NeverRejects ==
  \A k \in 1..Len(calls) : calls[k].status # "rejected"

\* what the round trip compares
Content(seq) ==
  [i \in 1..Len(seq) |->
     [role |-> seq[i].role, content |-> seq[i].content,
      isError |-> seq[i].isError]]

\* no call of the application is in flight
Quiescent ==
  /\ boot = "ready"
  /\ gens = {}
  /\ writes = {}
  /\ titleJobs = {}
  /\ creates = {}
  /\ deletes = {}
  /\ loads = <<>>

\* the writes reached the server in the order they were issued
InIssueOrder(rows) ==
  \A i, j \in 1..Len(rows) : i < j => rows[i].id < rows[j].id

\* C9: round trip: after any sends and regenerates on the current session,
\* once all writes have completed, reloading its messages yields the same
\* sequence of {role, content, isError} as the in-memory one. Stated where
\* it is least demanding: the writes reached the server in issue order.
C9_RoundTrip ==
  (/\ Quiescent
   /\ currentSessionId # NoSession
   /\ InIssueOrder(dbMessages))
    => Content(GetMessagesBySession(currentSessionId, "remote"))
         = Content(messages)

\* C10: the in-memory session list is sorted by updatedAt descending in every
\* reachable state.
C10_SessionsSorted ==
  \A i, j \in 1..Len(sessions) :
    i < j => sessions[i].updatedAt >= sessions[j].updatedAt

\* the regenerate g takes a step: it starts, receives a chunk, fails, or its
\* save returns
RegenerateSteps(g) ==
  /\ g.kind = "regenerate"
  /\ \/ g \in gens /\ g \notin gens'
     \/ g \notin gens /\ g \in gens'

\* messages' is messages but for the content and isError of the message id
OnlyContentAndError(id) ==
  /\ Len(messages') = Len(messages)
  /\ \A i \in 1..Len(messages) :
       /\ messages'[i].id = messages[i].id
       /\ messages'[i].sessionId = messages[i].sessionId
       /\ messages'[i].role = messages[i].role
       /\ messages'[i].timestamp = messages[i].timestamp
       /\ messages[i].id # id => messages'[i] = messages[i]

\* C12: regenerate(id) never changes the length of the in-memory sequence, the
\* ids or order of its messages, or any field of a message other than the
\* target's content and isError; when it starts, the target's content is
\* reset to the empty string and its isError to false.
C12_RegenerateKeepsIdentity ==
  [][\A g \in gens \cup gens' :
       RegenerateSteps(g) =>
         /\ OnlyContentAndError(g.target)
         /\ Invoked("regenerate") =>
              \A i \in 1..Len(messages') :
                messages'[i].id = g.target =>
                  /\ messages'[i].content = <<>>
                  /\ ~messages'[i].isError]_vars

\* the regenerate of the Model message of an earlier send streams into that
\* message: same id, same place behind the User message, new content
C12_Witness ==
  \E g \in gens :
    /\ g.kind = "regenerate"
    /\ g.fullResponse # <<>>
    /\ Len(messages) = 2
    /\ messages[2].id = g.target
    /\ messages[2].content = g.fullResponse
    /\ ~messages[2].isError
    /\ messages[1].role = UserRole
    /\ \E k \in 1..Len(calls) : calls[k].kind = "send" /\ calls[k].accepted

\* the stored messages of session sid, as a reload returns them
SavedMessages(sid) == GetMessagesBySession(sid, "remote")

\* C13: for every session with at least one saved message, at every
\* observation point, the preview is the first 60 characters of the content
\* of the latest saved message, with the ellipsis iff the content is longer.
C13_PreviewOfLatestSaved ==
  \A i \in 1..Len(sessions) :
    LET saved == SavedMessages(sessions[i].id) IN
    saved # <<>> => sessions[i].preview = MakePreview(saved[Len(saved)].content)

\* the callbacks of the stream started for session sid leave every message
\* of another session and every other session's record as they were
TouchesOnlySession(sid) ==
  /\ Len(messages') = Len(messages)
  /\ \A i \in 1..Len(messages) :
       messages[i].sessionId # sid => messages'[i] = messages[i]
  /\ Len(sessions') = Len(sessions)
  /\ \A i \in 1..Len(sessions) :
       sessions[i].id # sid =>
         \E k \in 1..Len(sessions') : sessions'[k] = sessions[i]

\* C16: when the active session has changed while a generation is in
\* flight, the stream's chunk and completion callbacks modify the messages,
\* preview and title of no session but the one the stream was started for; a
\* chunk whose target is not in the view is dropped.
C16_StaleCallbacksStayInSession ==
  [][\A g \in gens :
       (g \notin gens' /\ currentSessionId # g.sid) =>
         /\ TouchesOnlySession(g.sid)
         /\ IndexOfId(messages, g.target) = 0 => messages' = messages]_vars

\* C19: the active session id never dangles: it is null or the id of a
\* session of the in-memory list.
C19_ActiveSessionListed ==
  currentSessionId = NoSession \/ HasId(sessions, currentSessionId)

\* one send was the only invocation, it has returned, every call it made
\* has returned, and nothing failed
OneSuccessfulSend ==
  /\ Quiescent
  /\ calls = <<[kind |-> "send", accepted |-> TRUE, status |-> "fulfilled"]>>
  /\ ~HoldsErrorMessage(dbMessages, currentSessionId)
  /\ Len(sessions) = 1
  /\ sessions[1].id = currentSessionId

\* the title of a session changes in this step
TitleChanges ==
  \E i \in 1..Len(sessions) : \E k \in 1..Len(sessions') :
    /\ sessions'[k].id = sessions[i].id
    /\ sessions'[k].title # sessions[i].title

\* C20: starting from an empty session with the placeholder title, a
\* successful send ends with exactly two messages (the User message with the
\* text sent, then the Model message with the final content), the preview set
\* to the truncated final content, and the title changed from the placeholder
\* exactly once.
C20_FirstExchange ==
  /\ [](OneSuccessfulSend =>
          /\ Len(messages) = 2
          /\ messages[1].role = UserRole
          /\ messages[1].content = <<"h","i">>
          /\ messages[2].role = ModelRole
          /\ ~messages[2].isError
          /\ Content(messages) = Content(SavedMessages(currentSessionId))
          /\ sessions[1].preview = MakePreview(messages[2].content)
          /\ sessions[1].title # NewChat)
  /\ [][(Len(calls') <= 1 /\ TitleChanges) =>
          /\ Len(sessions) = 1
          /\ sessions[1].title = NewChat
          /\ sessions'[1].title # NewChat]_vars

\* the exchange has ended with a final content longer than the preview, which
\* ends with the ellipsis, and with the derived title
C20_Witness ==
  /\ OneSuccessfulSend
  /\ Len(messages) = 2
  /\ messages[2].content = Piece \o Piece
  /\ sessions[1].preview = SubSeq(Piece \o Piece, 1, PreviewLen) \o Ellipsis
  /\ sessions[1].title = DerivedTitle

\* C11: deleting the only existing session results in exactly one session
\* afterwards, never zero and never more than one: once the sessions of the
\* earlier run are all deleted and nothing is pending, the list holds one
\* session, the replacement.
C11_OneSessionAfterLastDelete ==
  (/\ Quiescent
   /\ \A i \in 1..Len(sessions) : sessions[i].id \notin {1, 2})
    => Len(sessions) = 1

\* no store holds the session id or a message of it
Purged(id, srows, mrows, slist, mlist) ==
  /\ ~HasId(srows, id)
  /\ ~HasId(slist, id)
  /\ \A i \in 1..Len(mrows) : mrows[i].sessionId # id
  /\ \A i \in 1..Len(mlist) : mlist[i].sessionId # id

\* C17: when delete(id) completes, the gateway holds neither the session id
\* nor a message of it, in the remote store and in the fallback store,
\* whichever of them served the call.
C17_DeletePurges ==
  [][\A d \in deletes :
       d \notin deletes' =>
         Purged(d.id, dbSessions', dbMessages', lsSessions', lsMessages')]_vars

\* C18: in every state where no delete is mid-flight, the sessionId of every
\* durable message is the id of a durable session.
C18_MessagesHaveSession ==
  deletes = {} =>
    /\ \A i \in 1..Len(dbMessages) :
         HasId(dbSessions, dbMessages[i].sessionId)
           \/ HasId(lsSessions, dbMessages[i].sessionId)
    /\ \A i \in 1..Len(lsMessages) :
         HasId(dbSessions, lsMessages[i].sessionId)
           \/ HasId(lsSessions, lsMessages[i].sessionId)


\* ------------------------------------------------ the refreshing variant
\* handleSendMessage of the variant that reloads the list after the save:
\* await saveMessage(sid, Role.Model, fullResponse) returns or throws, and
\* the handler goes on to await getSessions()
SaveReturnRefresh(g, outcome) ==
  /\ g \in gens
  /\ g.kind = "send"
  /\ g.pc = "save"
  /\ UNCHANGED searchResults
  /\ SaveServed(g.saving, outcome)
  /\ SaveMessageEffect(g.saving, outcome)
  /\ IF outcome = "throw"
     THEN SendCatch(g)
     ELSE /\ gens' = (gens \ {g}) \cup {[g EXCEPT !.pc = "refresh"]}
          /\ UNCHANGED <<messages, nextId, isGenerating, calls>>
  /\ UNCHANGED <<sessions, currentSessionId, now, nextSid, boot, writes,
                 titleJobs, creates, deletes, loads>>

\* const updatedSessions = await getSessions(); setSessions(updatedSessions),
\* then the finally block
RefreshReturn(g, outcome) ==
  /\ UNCHANGED <<faults, searchResults>>
  /\ g \in gens
  /\ g.pc = "refresh"
  /\ sessions' = GetSessions(outcome)
  /\ Finally(g, "fulfilled")
  /\ UNCHANGED <<currentSessionId, messages, now, nextId, nextSid, storeVars,
                 boot, writes, titleJobs, creates, deletes, loads>>

\* The first exchange of a first run in the refreshing variant, when the
\* server answers every call.
NextRefresh ==
  \/ LoadDataReturn("remote")
  \/ \E c \in creates : CreateReturn(c, "remote")
  \/ \E i \in 1..Len(loads) : LoadReturn(i, "remote")
  \/ \E v \in InputValues :
       loads = <<>> /\ Len(calls) < MaxStoreCalls /\ HandleSendMessage(v)
  \/ \E g \in gens : StreamChunk(g)
  \/ \E g \in gens : StreamResolve(g)
  \/ \E g \in gens : SaveReturnRefresh(g, "remote")
  \/ \E g \in gens : RefreshReturn(g, "remote")
  \/ \E j \in titleJobs : TitleReturn(j, DerivedTitle)
  \/ \E w \in writes : WriteReturn(w, "remote")

SpecRefresh == Init /\ [][NextRefresh]_vars

\* C15: when the title write of the first message and the write that
\* completes the message race on one session, both apply: once both have
\* returned the session carries the derived title and the new preview and
\* updatedAt, in the list in memory and in the store (the messages having
\* reached the store in the order they were issued).
C15_TitleAndCompletionBothApply ==
  (OneSuccessfulSend /\ InIssueOrder(dbMessages)) =>
    LET saved == SavedMessages(currentSessionId)
        final == saved[Len(saved)]
    IN  /\ sessions[1].title = DerivedTitle
        /\ sessions[1].preview = MakePreview(final.content)
        /\ sessions[1].updatedAt >= final.timestamp
        /\ dbSessions[1].title = DerivedTitle
        /\ dbSessions[1].preview = MakePreview(final.content)
        /\ dbSessions[1].updatedAt >= final.timestamp


\* --------------------------------------- the synchronous localStorage store
\* getSessions: JSON.parse(stored).sort((a, b) => b.updatedAt - a.updatedAt)
LegacyGetSessions(list) == SortByUpdatedDesc(list)

\* updateSession(id, updates) for a partial of one field:
\* sessions[index] = { ...sessions[index], ...updates, updatedAt: Date.now() }
LegacyUpdateSession(list, id, field, value, t) ==
  LET read == LegacyGetSessions(list)
      index == IndexOfId(read, id)
  IN  IF index = 0 THEN list
      ELSE [read EXCEPT ![index] = [@ EXCEPT ![field] = value,
                                             !.updatedAt = t]]

\* createSession(): the new session in front of what getSessions() returns
LegacyCreateSession ==
  /\ UNCHANGED <<faults, searchResults>>
  /\ nextSid <= MaxSessions
  /\ lsSessions' = <<NewSession(nextSid, now)>> \o LegacyGetSessions(lsSessions)
  /\ nextSid' = nextSid + 1
  /\ UNCHANGED <<reactVars, asyncVars, dbSessions, dbMessages, lsMessages,
                 now, nextId, calls>>

\* updateSession(id, { title })
LegacyUpdateTitle(id, title) ==
  /\ UNCHANGED <<faults, searchResults>>
  /\ lsSessions' = LegacyUpdateSession(lsSessions, id, "title", title, now)
  /\ UNCHANGED <<reactVars, asyncVars, dbSessions, dbMessages, lsMessages,
                 now, nextId, nextSid, calls>>

\* saveMessage(sessionId, role, content): append the message, then
\* updateSession(sessionId, { preview })
LegacySaveMessage(sid, role, content) ==
  /\ UNCHANGED <<faults, searchResults>>
  /\ nextId <= MaxStoreCalls
  /\ lsMessages' = Append(lsMessages,
                          NewMessage(nextId, sid, role, content, now, FALSE))
  /\ nextId' = nextId + 1
  /\ lsSessions' = LegacyUpdateSession(lsSessions, sid, "preview",
                                       MakePreview(content), now)
  /\ UNCHANGED <<reactVars, asyncVars, dbSessions, dbMessages, now, nextSid,
                 calls>>

\* deleteSession(id): the session and, by cascade, its messages
LegacyDeleteSession(id) ==
  /\ UNCHANGED <<faults, searchResults>>
  /\ lsSessions' = WithoutId(LegacyGetSessions(lsSessions), id)
  /\ lsMessages' = SelectSeq(lsMessages, LAMBDA m : m.sessionId # id)
  /\ UNCHANGED <<reactVars, asyncVars, dbSessions, dbMessages, now, nextId,
                 nextSid, calls>>

\* The calls of the synchronous localStorage store, in any order.
NextLegacy ==
  \/ Tick
  \/ LegacyCreateSession
  \/ \E id \in 1..(nextSid - 1), t \in {NewChat, DerivedTitle} :
       LegacyUpdateTitle(id, t)
  \/ \E id \in 1..(nextSid - 1) : LegacySaveMessage(id, UserRole, <<"h","i">>)
  \/ \E id \in 1..(nextSid - 1) : LegacyDeleteSession(id)

SpecLegacy == Init /\ [][NextLegacy]_vars

\* a step that changes the title of a session of the list and none of its
\* other fields but updatedAt keeps the session's updatedAt and its position
\* in the list as read back
TitleUpdateKeeps(old, new) ==
  \A i \in 1..Len(old) : \A k \in 1..Len(new) :
    (/\ new[k].id = old[i].id
     /\ new[k].title # old[i].title
     /\ new[k].preview = old[i].preview
     /\ Len(new) = Len(old)) =>
      /\ new[k].updatedAt = old[i].updatedAt
      /\ IndexOfId(SortByUpdatedDesc(new), old[i].id)
           = IndexOfId(SortByUpdatedDesc(old), old[i].id)

\* C14: an update whose partial carries only the title changes neither the
\* position of the session in the list nor its updatedAt, in the list in
\* memory, in the server's table and in localStorage.
C14_TitleUpdateKeepsOrder ==
  [][/\ TitleUpdateKeeps(sessions, sessions')
     /\ TitleUpdateKeeps(dbSessions, dbSessions')
     /\ TitleUpdateKeeps(lsSessions, lsSessions')]_vars


\* the view holds a failed first exchange: the User message, then the
\* error-state Model message
FirstExchangeFailed ==
  /\ Len(messages) = 2
  /\ messages[1].role = UserRole
  /\ messages[2].role = ModelRole
  /\ messages[2].isError

\* the regenerate g of the failed first exchange of its session returns in
\* this step, its message saved
FirstRetrySucceeds(g) ==
  /\ g \in gens
  /\ g.kind = "regenerate"
  /\ g.pc = "save"
  /\ g \notin gens'
  /\ storeVars' # storeVars
  /\ g.length = 2
  /\ g.history = <<>>
  /\ HoldsErrorMessage(dbMessages, g.sid)

\* no title has been derived for session sid of the list
TitleToDerive(list, sid) ==
  \E i \in 1..Len(list) : list[i].id = sid /\ list[i].title # DerivedTitle

\* C21: when the first exchange of a session failed and its title is still
\* to be derived, regenerate of the failed message resends the content of the
\* User message with an empty history and clears the error flag; when it
\* succeeds it sets the session's preview and starts the derivation of the
\* title from that content, as a successful first send does.
C21_RetryOfFirstExchange ==
  [][/\ (Invoked("regenerate") /\ FirstExchangeFailed /\ ~isGenerating
           /\ calls'[Len(calls')].accepted
           /\ IndexOfId(messages', messages[2].id) = 2) =>
          /\ ~messages'[2].isError
          /\ \E g \in gens' \ gens :
               /\ g.text = messages[1].content
               /\ g.history = <<>>
               /\ g.target = messages[2].id
     /\ \A g \in gens :
          (FirstRetrySucceeds(g) /\ TitleToDerive(sessions, g.sid)) =>
            /\ \E i \in 1..Len(sessions') :
                 /\ sessions'[i].id = g.sid
                 /\ sessions'[i].preview = MakePreview(g.fullResponse)
            /\ [sid |-> g.sid, text |-> g.text] \in titleJobs']_vars


\* the stream of the regenerate g fails in this step
RegenerateStreamFails(g) ==
  /\ g \in gens
  /\ g.kind = "regenerate"
  /\ g.pc = "stream"
  /\ g \notin gens'
  /\ \A h \in gens' : h.op # g.op

\* C22: regenerate handles a generation failure as send does: the target
\* message gets the fixed error string and isError = true, and the error-state
\* message is durably saved, so that once nothing is pending a reload of the
\* session shows a failure the view shows.
C22_FailedRegeneratePersisted ==
  /\ [][\A g \in gens :
          RegenerateStreamFails(g) =>
            \A i \in 1..Len(messages') :
              messages'[i].id = g.target =>
                /\ messages'[i].isError
                /\ messages'[i].content = ErrorString]_vars
  /\ []((/\ Quiescent
         /\ currentSessionId # NoSession
         /\ \E i \in 1..Len(messages) : messages[i].isError)
          => HoldsErrorMessage(SavedMessages(currentSessionId),
                               currentSessionId))


\* ------------------------------------------------- the interrupted first run
\* the User message an earlier run saved before the page was closed
InterruptedMessage == NewMessage(1, 1, UserRole, <<"h","i">>, 1, FALSE)

\* the stores of a browser whose first run was closed while the first answer
\* was streaming: the session and its User message are on the server, no
\* Model message and no title were saved
InitInterrupted ==
  /\ sessions = <<>>
  /\ currentSessionId = NoSession
  /\ messages = <<>>
  /\ isGenerating = FALSE
  /\ now = 2
  /\ nextId = 2
  /\ nextSid = 2
  /\ dbSessions = RemoteSaveMessageSessions(<<NewSession(1, 1)>>,
                                            InterruptedMessage)
  /\ dbMessages = <<InterruptedMessage>>
  /\ lsSessions = <<>>
  /\ lsMessages = <<>>
  /\ boot = "loading"
  /\ gens = {}
  /\ writes = {}
  /\ titleJobs = {}
  /\ creates = {}
  /\ deletes = {}
  /\ loads = <<>>
  /\ calls = <<>>
  /\ faults = 0
  /\ searchResults = NullResults

\* The conversation engine on the session of an interrupted first run, when
\* the server answers every call.
NextResume ==
  \/ LoadDataReturn("remote")
  \/ \E i \in 1..Len(loads) : LoadReturn(i, "remote")
  \/ \E v \in InputValues : HandleSendMessage(v)
  \/ \E i \in 1..Len(messages) : HandleRegenerate(messages[i].id)
  \/ \E g \in gens : StreamChunk(g)
  \/ \E g \in gens : StreamResolve(g)
  \/ \E g \in gens : StreamFail(g)
  \/ \E g \in gens : SaveReturn(g, "remote")
  \/ \E g \in gens : ErrorSaveReturn(g, "remote")
  \/ \E j \in titleJobs, t \in TitleResults : TitleReturn(j, t)
  \/ \E w \in writes : WriteReturn(w, "remote")

SpecResume == InitInterrupted /\ [][NextResume]_vars

\* the invocation of regenerate in this step returned at a guard and
\* changed nothing
RegenerateNoOp ==
  /\ ~calls'[Len(calls')].accepted
  /\ UNCHANGED <<reactVars, gens, writes, titleJobs, storeVars>>

\* the invocation of regenerate in this step was accepted for a target that
\* meets the preconditions of the operation
RegenerateOfModelAnswer ==
  /\ currentSessionId # NoSession
  /\ ~isGenerating
  /\ \E g \in gens' \ gens :
       LET msgIndex == IndexOfId(messages, g.target) IN
       /\ msgIndex > 1
       /\ messages[msgIndex].role = ModelRole
       /\ messages[msgIndex - 1].role = UserRole

\* C23: regenerate changes nothing and starts no generation unless there is
\* an active session, no generation is running, the target is a Model message
\* of the view and the message before it is a User message; and no step
\* changes the content of a User message of the view.
C23_RegeneratePreconditions ==
  [][/\ Invoked("regenerate") => (RegenerateNoOp \/ RegenerateOfModelAnswer)
     /\ \A i \in 1..Len(messages) : \A k \in 1..Len(messages') :
          (messages[i].role = UserRole /\ messages'[k].id = messages[i].id)
            => messages'[k].content = messages[i].content]_vars


\* t is the text v without the white space at its two ends
IsTrimOf(t, v) ==
  \E a \in 1..(Len(v) + 1) : \E b \in 0..Len(v) :
    /\ t = SubSeq(v, a, b)
    /\ \A i \in 1..Len(v) : (i < a \/ i > b) => IsSpace(v[i])
    /\ t # <<>> => (~IsSpace(t[1]) /\ ~IsSpace(t[Len(t)]))

\* C24: send changes nothing when the input is empty once trimmed or when
\* there is no active session; when it is accepted, the User message it
\* appends to the view has exactly the trimmed input as content.
C24_SendPreconditions ==
  [][\A v \in InputValues :
       HandleSendMessage(v) =>
         /\ (IsTrimOf(<<>>, v) \/ currentSessionId = NoSession) =>
              /\ ~calls'[Len(calls')].accepted
              /\ UNCHANGED <<reactVars, storeVars, asyncVars, nextId, nextSid>>
         /\ calls'[Len(calls')].accepted =>
              /\ Len(messages') = Len(messages) + 2
              /\ SubSeq(messages', 1, Len(messages)) = messages
              /\ messages'[Len(messages) + 1].role = UserRole
              /\ IsTrimOf(messages'[Len(messages) + 1].content, v)]_vars

\* a send with nothing but white space and a send before a session was
\* active were turned down, and an accepted send put the input without its
\* surrounding white space in the view
C24_Witness ==
  /\ Len(calls) = 2
  /\ calls[1] = NoOpCall("send")
  /\ calls[2].kind = "send"
  /\ calls[2].accepted
  /\ Len(messages) = 2
  /\ messages[1].role = UserRole
  /\ messages[1].content = <<"h","i">>


\* history is the first n messages of the view
IsPrefixOfView(history, n) ==
  /\ Len(history) = n
  /\ \A k \in 1..n : history[k] = messages[k]

\* C25: the history passed to streamChatResponse never holds the prompt or
\* the stream-target message: for send it is the view as it stood before the
\* User and Model messages were appended, for regenerate of the message at
\* position i (from 1) it is the messages at positions 1..i-2; the prompt is
\* passed as the separate newMessage argument.
C25_HistoryExcludesPrompt ==
  [][\A g \in gens' \ gens :
       /\ (Invoked("send") /\ g.kind = "send") =>
            /\ IsPrefixOfView(g.history, Len(messages))
            /\ g.target = messages'[Len(messages) + 2].id
            /\ g.text = messages'[Len(messages) + 1].content
            /\ \A k \in 1..Len(g.history) :
                 g.history[k].id \notin {g.target, messages'[Len(messages) + 1].id}
       /\ (Invoked("regenerate") /\ g.kind = "regenerate") =>
            LET i == IndexOfId(messages, g.target) IN
            /\ i > 1
            /\ IsPrefixOfView(g.history, i - 2)
            /\ g.text = messages[i - 1].content
            /\ \A k \in 1..Len(g.history) :
                 g.history[k].id \notin {g.target, messages[i - 1].id}]_vars

\* a regenerate of the answer of the second exchange is streaming: it was
\* given the first message of the view as history and the second as prompt
C25_Witness ==
  \E g \in gens :
    /\ g.kind = "regenerate"
    /\ g.pc = "stream"
    /\ Len(messages) = 3
    /\ messages[3].id = g.target
    /\ Len(g.history) = 1
    /\ g.history[1].id = messages[1].id
    /\ g.text = messages[2].content


\* the stream of g delivers the cumulative text in this step
ChunkDelivered(g, text) ==
  /\ g \in gens
  /\ g.pc = "stream"
  /\ \E h \in gens' : h.op = g.op /\ h.pc = "stream" /\ h.fullText = text
  /\ text # g.fullText

\* the generation g returns in this step, its final text saved
GenerationCompletes(g) ==
  /\ g \in gens
  /\ g.pc = "save"
  /\ g \notin gens'
  /\ storeVars' # storeVars

\* the stream-target message of g, where the view holds it, has this content
TargetShows(g, text) ==
  \A i \in 1..Len(messages') :
    messages'[i].id = g.target => messages'[i].content = text

\* the message g saved is in a store with this content
SavedWith(g, text) ==
  \E rows \in {dbMessages', lsMessages'} : \E i \in 1..Len(rows) :
    rows[i].id = g.saving.id /\ rows[i].content = text

\* C26: chunks replace, they do not accumulate: after each chunk callback
\* the content of the stream-target message is exactly the cumulative text
\* that chunk delivered, and when the generation completes successfully the
\* content in the view and the content saved are the last cumulative text
\* delivered.
C26_ChunksReplace ==
  [][\A g \in gens :
       /\ \A h \in gens' : ChunkDelivered(g, h.fullText) =>
            TargetShows(g, h.fullText)
       /\ (GenerationCompletes(g) /\ g.fullText # <<>>) =>
            /\ TargetShows(g, g.fullText)
            /\ SavedWith(g, g.fullText)]_vars


\* the text a is a prefix of the text b
IsPrefix(a, b) == Len(a) <= Len(b) /\ SubSeq(b, 1, Len(a)) = a

\* the stream of g is running before and after this step
StillStreaming(g) ==
  /\ g \in gens
  /\ g.pc = "stream"
  /\ \E h \in gens' : h.op = g.op /\ h.pc = "stream"

\* C27: during a generation the content of the stream-target Model message
\* only grows: in every step taken while the stream is running, the content
\* the view showed for the target is a prefix of the content it shows
\* afterwards (the reset of regenerate comes before the stream starts).
C27_ContentOnlyGrows ==
  [][\A g \in gens :
       StillStreaming(g) =>
         \A i \in 1..Len(messages) : \A k \in 1..Len(messages') :
           (messages[i].id = g.target /\ messages'[k].id = g.target)
             => IsPrefix(messages[i].content, messages'[k].content)]_vars


\* C28: when a send or regenerate for session S completes successfully, the
\* final content is saved and S, if the list holds it, is moved to the front
\* of the list in memory with updatedAt set to the time of completion, the
\* other sessions keeping their order, whichever session is active by then;
\* the active session is not changed.
C28_CompletionMovesToFront ==
  [][\A g \in gens :
       (GenerationCompletes(g) /\ HasId(sessions, g.sid)) =>
         /\ SavedWith(g, g.fullResponse)
         /\ sessions'[1].id = g.sid
         /\ sessions'[1].updatedAt = now
         /\ sessions'[1].preview = MakePreview(g.fullResponse)
         /\ Tail(sessions') = WithoutId(sessions, g.sid)
         /\ currentSessionId' = currentSessionId]_vars

\* a send for the second session of the list has completed after the user
\* went back to the first one: the second session is now in front
C28_Witness ==
  /\ gens = {}
  /\ Len(calls) = 1
  /\ calls[1] = [kind |-> "send", accepted |-> TRUE, status |-> "fulfilled"]
  /\ Len(sessions) = 2
  /\ sessions[1].id = 2
  /\ sessions[1].preview = MakePreview(Piece)
  /\ sessions[1].updatedAt > sessions[2].updatedAt
  /\ currentSessionId = 1


\* the derivation j returns in this step with the title newTitle
TitleArrives(j, newTitle) ==
  /\ j \in titleJobs
  /\ j \notin titleJobs'
  /\ [type |-> "title", sid |-> j.sid, msg |-> NoMsg, title |-> newTitle]
       \in writes' \ writes

\* C29: title derivation and generation never block each other: a generation
\* ends and isGenerating is reset even in a behaviour where a derivation never
\* returns, and a derivation can return whenever it is pending, its title
\* being put on the session in the list whether a generation is streaming,
\* has failed or has completed.
C29_TitleAndGenerationIndependent ==
  /\ (<>[](titleJobs # {})) => []<>(~isGenerating)
  /\ [](\A j \in titleJobs : ENABLED TitleReturn(j, DerivedTitle))
  /\ [][\A j \in titleJobs : \A t \in TitleResults :
          TitleArrives(j, t) =>
            /\ Len(sessions') = Len(sessions)
            /\ \A i \in 1..Len(sessions) :
                 sessions'[i] = IF sessions[i].id = j.sid
                                THEN [sessions[i] EXCEPT !.title = t]
                                ELSE sessions[i]]_vars

\* the first send of the session has failed and returned, and the title
\* derived from its text is on the session
C29_Witness ==
  /\ gens = {}
  /\ ~isGenerating
  /\ Len(calls) = 1
  /\ calls[1] = [kind |-> "send", accepted |-> TRUE, status |-> "fulfilled"]
  /\ Len(messages) = 2
  /\ messages[2].isError
  /\ Len(sessions) = 1
  /\ sessions[1].title = DerivedTitle


\* no session of the list old has a smaller updatedAt in the list new
UpdatedAtKept(old, new) ==
  \A i \in 1..Len(old) : \A k \in 1..Len(new) :
    new[k].id = old[i].id => new[k].updatedAt >= old[i].updatedAt

\* C30: the updatedAt of a session never decreases, in the list in memory,
\* in the server's table and in localStorage, in whatever order the writes
\* of the session reach the gateway.
C30_UpdatedAtNeverDecreases ==
  [][/\ UpdatedAtKept(sessions, sessions')
     /\ UpdatedAtKept(dbSessions, dbSessions')
     /\ UpdatedAtKept(lsSessions, lsSessions')]_vars


\* every message of the sequence has a timestamp greater than the one of
\* the message before it
StrictlyByTimestamp(seq) ==
  \A i \in 2..Len(seq) : seq[i].timestamp > seq[i - 1].timestamp

\* C31: within a session the messages are strictly ordered by timestamp in
\* conversation order, in the view and as the store returns them: every
\* message's timestamp is greater than its predecessor's, the User message
\* and the Model message of one send included.
C31_TimestampsStrictlyIncrease ==
  /\ StrictlyByTimestamp(messages)
  /\ \A i \in 1..Len(dbSessions) :
       StrictlyByTimestamp(RemoteGetMessages(dbMessages, dbSessions[i].id))


\* ------------------------------------------------------------------ search
\* what the user may have typed in the Sidebar's search box
SearchQueries == { <<>>, <<"h">>, <<"N","E","W">> }

\* String.prototype.toLowerCase, on the letters the titles and queries hold
ToLowerCase(s) ==
  [i \in 1..Len(s) |->
     CASE s[i] = "H" -> "h"
       [] s[i] = "N" -> "n"
       [] s[i] = "E" -> "e"
       [] s[i] = "W" -> "w"
       [] s[i] = "C" -> "c"
       [] OTHER -> s[i]]

\* String.prototype.includes
Includes(s, sub) ==
  \E i \in 0..(Len(s) - Len(sub)) : SubSeq(s, i + 1, i + Len(sub)) = sub

\* s.title.toLowerCase().includes(lowerQuery)
TitleMatches(s, query) ==
  /\ s.title # NullTitle
  /\ Includes(ToLowerCase(s.title), ToLowerCase(query))

\* searchSessions: s.title.toLowerCase() throws on a title that is null
SearchThrows(query, outcome) ==
  /\ query # <<>>
  /\ \E i \in 1..Len(GetSessions(outcome)) :
       GetSessions(outcome)[i].title = NullTitle

\* searchSessions: the sessions getSessions returns, filtered by the query
SearchSessions(query, outcome) ==
  IF query = <<>> THEN GetSessions(outcome)
  ELSE SelectSeq(GetSessions(outcome), LAMBDA s : TitleMatches(s, query))

\* Sidebar: const displaySessions = searchResults !== null ? searchResults : sessions
DisplaySessions ==
  IF searchResults.isNull THEN sessions ELSE searchResults.list

\* Sidebar's effect on [searchQuery], the debounce timer elapsed
Search(searchQuery, outcome) ==
  /\ IF Trim(searchQuery) = <<>>
     THEN /\ searchResults' = NullResults
          /\ UNCHANGED faults
     ELSE /\ Served(outcome)
          /\ searchResults' =
               IF SearchThrows(searchQuery, outcome) THEN searchResults
               ELSE [isNull |-> FALSE, list |-> SearchSessions(searchQuery, outcome)]
  /\ UNCHANGED <<reactVars, storeVars, now, nextId, nextSid, boot, gens,
                 writes, titleJobs, creates, deletes, loads, calls>>

\* One exchange at a time against a server that answers every call, the
\* user searching the list at any moment.
NextSearch ==
  \/ NextTrip
  \/ \E q \in SearchQueries : Search(q, "remote")

SpecSearch == Init /\ [][NextSearch]_vars

\* the sessions of the list whose title contains the query, case ignored,
\* in the order of the list
Matching(list, query) ==
  IF query = <<>> THEN list
  ELSE SelectSeq(list, LAMBDA s : TitleMatches(s, query))

\* C32: a search shows exactly the sessions of the list in memory whose
\* title contains the query, case ignored, in the order of that list, all
\* of them for an empty query, and it changes neither the list in memory,
\* the active session nor the store.
C32_SearchReturnsMatches ==
  [][\A q \in SearchQueries :
       Search(q, "remote") =>
         /\ DisplaySessions' = Matching(sessions, q)
         /\ UNCHANGED <<sessions, currentSessionId, storeVars>>]_vars


\* the session is a row of the server's table or an entry of localStorage
Persisted(c, db, ls) ==
  \/ \E i \in 1..Len(db) : db[i] = c
  \/ \E i \in 1..Len(ls) : ls[i] = c

\* loadData has returned and the createSession it started, if any, too
StartupDone == boot = "ready" /\ creates = {}

\* C33: create adds exactly one session with the placeholder title and
\* preview at the front of the list in memory, persists it and makes it
\* the active one; once startup is over (the stored list is loaded and,
\* when it was empty, the create has returned) one session of the list is
\* the active one.
C33_CreateAndStartup ==
  /\ [](StartupDone =>
          currentSessionId # NoSession /\ HasId(sessions, currentSessionId))
  /\ [][\A c \in creates, o \in Outcomes :
          CreateReturn(c, o) =>
            /\ c.title = NewChat /\ c.preview = StartPreview
            /\ sessions' = <<c>> \o sessions
            /\ currentSessionId' = c.id
            /\ Persisted(c, dbSessions', lsSessions')]_vars


\* ------------------------------------------------- switching in quick succession
\* the loads that may be pending at once while the user switches sessions
MaxPendingLoads == 3

\* The user switches between the two sessions of an earlier run faster than
\* the loads resolve, around one exchange; the server answers every call.
NextQuick ==
  \/ LoadDataReturn("remote")
  \/ \E id \in 1..(nextSid - 1) : SelectSessionWithin(id, MaxPendingLoads)
  \/ \E i \in 1..Len(loads) : LoadReturn(i, "remote")
  \/ Len(calls) < MaxStoreCalls /\ HandleSendMessage(<<" ","h","i"," ">>)
  \/ \E g \in gens : StreamChunk(g)
  \/ \E g \in gens : StreamResolve(g)
  \/ \E g \in gens : SaveReturn(g, "remote")
  \/ \E j \in titleJobs : TitleReturn(j, DerivedTitle)
  \/ \E w \in writes : WriteReturn(w, "remote")

SpecQuick == InitReturning /\ [][NextQuick]_vars

\* every message of the view belongs to the session sid
OnlyMessagesOf(view, sid) ==
  \A i \in 1..Len(view) : view[i].sessionId = sid

\* C34: once no load is pending, the view holds only messages of the
\* active session, in whatever order the loads of a quick succession of
\* switches resolved.
C34_ViewIsOfActiveSession ==
  loads = <<>> => OnlyMessagesOf(messages, currentSessionId)


\* C35: the history a send passes to streamChatResponse holds only
\* messages of the session the send is for, also when the send is invoked
\* after the active session changed and before its messages are loaded.
C35_SendHistoryIsOfSession ==
  \A g \in gens : g.kind = "send" => OnlyMessagesOf(g.history, g.sid)


\* the view holds the User message and the target message of the send g
ExchangeInView(g, view) ==
  /\ HasId(view, g.target)
  /\ \E i \in 1..Len(view) :
       /\ view[i].role = UserRole
       /\ view[i].sessionId = g.sid
       /\ view[i].content = g.text

\* C36: while a send is in flight and its session stays the active one,
\* the User message and the target message it appended stay in the view,
\* also when a load of that session that started before the send resolves
\* after it.
C36_ExchangeStaysInView ==
  [][\A g \in gens :
       (/\ g.kind = "send"
        /\ g.sid = currentSessionId
        /\ currentSessionId' = currentSessionId
        /\ ExchangeInView(g, messages))
       => ExchangeInView(g, messages')]_vars


\* ------------------------------------------------ delete and the list refresh
\* Deleting the sessions of an earlier run around one exchange in the
\* refreshing variant; the server answers every call.
NextRefreshDelete ==
  \/ LoadDataReturn("remote")
  \/ \E c \in creates : CreateReturn(c, "remote")
  \/ \E i \in 1..Len(loads) : LoadReturn(i, "remote")
  \/ \E id \in 1..(nextSid - 1) : HandleDeleteSession(id)
  \/ \E d \in deletes : DeleteReturn(d, "remote")
  \/ Len(calls) < MaxStoreCalls /\ HandleSendMessage(<<" ","h","i"," ">>)
  \/ \E g \in gens : StreamResolve(g)
  \/ \E g \in gens : SaveReturnRefresh(g, "remote")
  \/ \E g \in gens : RefreshReturn(g, "remote")
  \/ \E j \in titleJobs : TitleReturn(j, DerivedTitle)
  \/ \E w \in writes : WriteReturn(w, "remote")

SpecRefreshDelete == InitReturning /\ [][NextRefreshDelete]_vars

\* the session id was in the list in memory and handleDeleteSession removed
\* it: the list is loaded, the id is issued, no createSession for it is
\* pending and the list does not hold it
Removed(id) ==
  /\ boot = "ready"
  /\ id < nextSid
  /\ \A c \in creates : c.id # id
  /\ ~HasId(sessions, id)

\* C37: a session that delete removed from the list in memory is never in
\* that list again, whatever completes later: a generation for it, a title
\* derivation for it, or a refresh of the list from the gateway.
C37_DeletedNeverReappears ==
  [][\A id \in 1..(nextSid - 1) :
       Removed(id) => ~HasId(sessions', id)]_vars


\* the message m is an element of the list
Holds(list, m) == \E i \in 1..Len(list) : list[i] = m

\* the messages a saveMessage call stored and returned: the rows the server
\* inserted and the entries the fallback appended
StoredMessages ==
  {dbMessages[i] : i \in 1..Len(dbMessages)}
    \cup {lsMessages[i] : i \in 1..Len(lsMessages)}

\* a gateway call made now can have this outcome (Served)
CanBeServed(outcome) == outcome = "remote" \/ faults < MaxFaults

\* C38: every message a saveMessage call stored and returned is in what
\* getMessagesBySession returns for its session afterwards, as long as the
\* session is not deleted, whether that read is served by the server or by
\* the localStorage fallback.
C38_ReadYourWrites ==
  \A m \in StoredMessages : \A o \in {"remote", "local"} :
    (HasId(sessions, m.sessionId) /\ CanBeServed(o)) =>
      Holds(GetMessagesBySession(m.sessionId, o), m)


\* the title of the session sid, NullTitle when the list does not hold it
TitleOf(list, sid) ==
  IF HasId(list, sid) THEN list[IndexOfId(list, sid)].title ELSE NullTitle

\* the session sid is in both lists, with another title in the second
TitleChanged(old, new, sid) ==
  HasId(old, sid) /\ HasId(new, sid) /\ TitleOf(old, sid) # TitleOf(new, sid)

\* C39: a derived title goes only to the session whose send or regenerate
\* asked for it (the session that was active when the handler ran), also
\* when another session is active by the time the derivation returns: a
\* derivation is started for the session of a generation; when it returns
\* no other session's title changes in memory and the title write it
\* issues is for its session; when a title write reaches the store no
\* other session's title changes there.
C39_TitleGoesToItsSession ==
  [][/\ \A j \in titleJobs' \ titleJobs :
          \E g \in gens \cup gens' : g.sid = j.sid /\ g.text = j.text
     /\ \A j \in titleJobs \ titleJobs' :
          /\ \A sid \in 1..(nextSid - 1) :
               sid # j.sid => ~TitleChanged(sessions, sessions', sid)
          /\ \A w \in writes' \ writes : w.type = "title" /\ w.sid = j.sid
     /\ \A w \in writes \ writes' :
          w.type = "title" =>
            \A sid \in 1..(nextSid - 1) :
              sid # w.sid =>
                /\ ~TitleChanged(dbSessions, dbSessions', sid)
                /\ ~TitleChanged(lsSessions, lsSessions', sid)]_vars

\* the title derived for a session has arrived, in memory and in the
\* store, while another session is the active one and keeps its title
C39_Witness ==
  \E sid \in 1..(nextSid - 1) :
    /\ sid # currentSessionId
    /\ TitleOf(sessions, sid) = DerivedTitle
    /\ TitleOf(dbSessions, sid) = DerivedTitle
    /\ TitleOf(sessions, currentSessionId) = NewChat
    /\ TitleOf(dbSessions, currentSessionId) = NewChat

============================================================================
